---- MODULE Spec2Model ----
(***************************************************************************)
(* Model of pkasolver/data.py: the conjugate pair resolver, the graph      *)
(* builder, the paired sample (PairData) and the dataset materializers.    *)
(*                                                                         *)
(* Atom indices and tensor columns are 0-based as in the source; TLA+      *)
(* sequences are 1-based, so atom i is atoms[i + 1].                       *)
(***************************************************************************)
EXTENDS Integers, Sequences, FiniteSets, TLC

VARIABLES pc, args, df, ret, err, log, calls

vars == <<pc, args, df, ret, err, log, calls>>

(* ------------------------------ bounds --------------------------------- *)
MaxAtoms == 2
MaxBonds == 2
MaxSel == 2
MaxList == 3
MaxRows == 2
MaxBatch == 3

(* ------------------------- exceptions and values ----------------------- *)
\* an exception: its class and the parts its message is made of
Part(text) == [text |-> text]
NoErr == [kind |-> "none", msg |-> {}]
RuntimeErr(m) == [kind |-> "RuntimeError", msg |-> m]
KeyErr(k) == [kind |-> "KeyError", msg |-> {Part(k)}]
ValueErr(m) == [kind |-> "ValueError", msg |-> m]
AssertionErr(m) == [kind |-> "AssertionError", msg |-> m]

Ok(v) == [err |-> NoErr, val |-> v]
Raise(e) == [err |-> e, val |-> <<>>]

None == <<>>

RECURSIVE SumSeq(_)
SumSeq(s) == IF s = <<>> THEN 0 ELSE Head(s) + SumSeq(Tail(s))

RECURSIVE Flatten(_)
\* pandas.core.common.flatten on a list of per-feature value lists
Flatten(ss) == IF ss = <<>> THEN <<>> ELSE Head(ss) \o Flatten(Tail(ss))

\* sequences over S of length lo..hi
SeqsBetween(S, lo, hi) == UNION {[1..n -> S] : n \in lo..hi}

(* ----------------------------- molecules ------------------------------- *)
\* An rdkit Mol as far as data.py reads it: the atoms in native order (their
\* formal charges), the bonds in native order (begin, end, bond order), and
\* an object identity (two Mol objects with equal content stay distinct).
Charges == {-1, 0, 1}
BondOrders == {1, 2}

Mol(atoms, bonds, oid) == [atoms |-> atoms, bonds |-> bonds, oid |-> oid]

GetNumAtoms(mol) == Len(mol.atoms)
HasAtom(mol, idx) == idx \in 0..(GetNumAtoms(mol) - 1)
GetFormalCharge(mol, idx) == mol.atoms[idx + 1]

BondsOn(n) ==
  {[begin |-> b, end |-> e, order |-> o] :
      b \in 0..(n - 1), e \in 0..(n - 1), o \in BondOrders} \
  {[begin |-> b, end |-> b, order |-> o] : b \in 0..(n - 1), o \in BondOrders}

\* bond lists over n atoms: at most nb bonds, at most one between two atoms
BondLists(n, nb) ==
  {b \in SeqsBetween(BondsOn(n), 0, nb) :
     \A i \in 1..Len(b) : \A j \in (i + 1)..Len(b) :
       {b[i].begin, b[i].end} # {b[j].begin, b[j].end}}

\* every molecule with at most na atoms and nb bonds, charges drawn from C
MolsOver(C, na, nb) ==
  UNION {{Mol(a, b, "mol") : a \in [1..n -> C], b \in BondLists(n, nb)}
           : n \in 0..na}

(* ------------------------- feature vocabulary -------------------------- *)
\* pkasolver/constants.py: value domains of the node and the edge features
node_feat_values ==
  [formal_charge |-> <<-1, 0, 1>>, reaction_center |-> <<1>>]

edge_feat_values ==
  [bond_type |-> <<1, 2>>, is_conjugated |-> <<1>>]

NodeNames == DOMAIN node_feat_values
EdgeNames == DOMAIN edge_feat_values
UnknownNames == {"bogus"}
AllNames == NodeNames \cup EdgeNames \cup UnknownNames

OneHot(v, domain) == [k \in 1..Len(domain) |-> IF v = domain[k] THEN 1 ELSE 0]

\* NODE_FEATURES[name](atom, atom_idx); the atom is atom number i of mol
NODE_FEATURES(name, mol, i, atom_idx) ==
  IF name = "formal_charge"
  THEN OneHot(GetFormalCharge(mol, i), node_feat_values[name])
  ELSE <<IF i = atom_idx THEN 1 ELSE 0>>

\* EDGE_FEATURES[name](bond)
EDGE_FEATURES(name, bond) ==
  IF name = "bond_type"
  THEN OneHot(bond.order, edge_feat_values[name])
  ELSE <<IF bond.order = 2 THEN 1 ELSE 0>>

RECURSIVE SumDomains(_, _)
\* for feat in feature_list: i_n += len(values[feat])
SumDomains(values, feature_list) ==
  IF feature_list = <<>> THEN 0
  ELSE Len(values[Head(feature_list)]) + SumDomains(values, Tail(feature_list))

AllIn(feature_list, names) ==
  \A k \in 1..Len(feature_list) : feature_list[k] \in names

calculate_nr_of_features_noraise(feature_list) ==
  IF AllIn(feature_list, NodeNames)
  THEN Ok(SumDomains(node_feat_values, feature_list))
  ELSE IF AllIn(feature_list, EdgeNames)
  THEN Ok(SumDomains(edge_feat_values, feature_list))
  ELSE Ok(0)

calculate_nr_of_features(feature_list) ==
  IF AllIn(feature_list, NodeNames)
  THEN Ok(SumDomains(node_feat_values, feature_list))
  ELSE IF AllIn(feature_list, EdgeNames)
  THEN Ok(SumDomains(edge_feat_values, feature_list))
  ELSE Raise(RuntimeErr({}))

RECURSIVE DictKeys(_, _)
\* insertion-ordered keys of {x: ... for x in feat_list}: a repeated name
\* keeps its first position
DictKeys(feat_list, seen) ==
  IF feat_list = <<>> THEN <<>>
  ELSE IF Head(feat_list) \in seen THEN DictKeys(Tail(feat_list), seen)
  ELSE <<Head(feat_list)>> \o DictKeys(Tail(feat_list), seen \cup {Head(feat_list)})

FirstMissing(feat_list, names) ==
  feat_list[CHOOSE k \in 1..Len(feat_list) :
              /\ feat_list[k] \notin names
              /\ \A j \in 1..(k - 1) : feat_list[j] \in names]

\* make_features_dicts(all_features, feat_list); the dict is modelled by its
\* keys in insertion order, names being the keys of all_features
make_features_dicts(names, feat_list) ==
  IF AllIn(feat_list, names)
  THEN Ok(DictKeys(feat_list, {}))
  ELSE Raise(KeyErr(FirstMissing(feat_list, names)))

(* ------------------------------ tensors -------------------------------- *)
\* numpy.array of a list of equally long rows: an empty list has shape (0,)
ArrayOfRows(rows) ==
  [shape |-> IF rows = <<>> THEN <<0>> ELSE <<Len(rows), Len(rows[1])>>,
   data |-> rows]

\* numpy.hstack(numpy.array(edges)) for a list of 2 x 1 arrays: the columns
\* side by side; concatenating an empty list raises ValueError
HStack(edges) ==
  IF edges = <<>>
  THEN Raise(ValueErr({Part("need at least one array to concatenate")}))
  ELSE Ok([shape |-> <<2, Len(edges)>>,
           data |-> <<[c \in 1..Len(edges) |-> edges[c][1]],
                      [c \in 1..Len(edges) |-> edges[c][2]]>>])

(* ---------------------------- graph builder ---------------------------- *)
RECURSIVE NodeRow(_, _, _, _)
\* for feat in n_features.values(): node.append(feat(atom, atom_idx))
NodeRow(mol, i, atom_idx, n_features) ==
  IF n_features = <<>> THEN <<>>
  ELSE <<NODE_FEATURES(Head(n_features), mol, i, atom_idx)>>
         \o NodeRow(mol, i, atom_idx, Tail(n_features))

RECURSIVE NodeRows(_, _, _, _)
\* for atom in mol.GetAtoms(): x.append(list(flatten(node)))
NodeRows(mol, i, atom_idx, n_features) ==
  IF i >= GetNumAtoms(mol) THEN <<>>
  ELSE <<Flatten(NodeRow(mol, i, atom_idx, n_features))>>
         \o NodeRows(mol, i + 1, atom_idx, n_features)

make_nodes_skipfirst(mol, atom_idx, n_features) ==
  ArrayOfRows(NodeRows(mol, 1, atom_idx, n_features))

make_nodes(mol, atom_idx, n_features) ==
  ArrayOfRows(NodeRows(mol, 0, atom_idx, n_features))

RECURSIVE EdgeRow(_, _)
\* for feat in e_features.values(): edge.append(feat(bond))
EdgeRow(bond, e_features) ==
  IF e_features = <<>> THEN <<>>
  ELSE <<EDGE_FEATURES(Head(e_features), bond)>> \o EdgeRow(bond, Tail(e_features))

RECURSIVE EdgeList(_)
\* the two edges.append(...) of every bond
EdgeList(bonds) ==
  IF bonds = <<>> THEN <<>>
  ELSE <<<<Head(bonds).begin, Head(bonds).end>>,
         <<Head(bonds).end, Head(bonds).begin>>>> \o EdgeList(Tail(bonds))

RECURSIVE EdgeAttrList(_, _)
\* edge_attr.extend([edge] * 2) of every bond
EdgeAttrList(bonds, e_features) ==
  IF bonds = <<>> THEN <<>>
  ELSE LET edge == Flatten(EdgeRow(Head(bonds), e_features))
       IN <<edge, edge>> \o EdgeAttrList(Tail(bonds), e_features)

make_edges_and_attr(mol, e_features) ==
  LET edges == EdgeList(mol.bonds)
      edge_attr == EdgeAttrList(mol.bonds, e_features)
      edge_index == HStack(edges)
  IN IF edge_index.err # NoErr THEN Raise(edge_index.err)
     ELSE Ok([edge_index |-> edge_index.val, edge_attr |-> ArrayOfRows(edge_attr)])

\* mol_to_features(mol, atom_idx, n_features, e_features)
mol_to_features(mol, atom_idx, n_features, e_features) ==
  LET nodes == make_nodes(mol, atom_idx, n_features)
      ea == make_edges_and_attr(mol, e_features)
  IN IF ea.err # NoErr THEN Raise(ea.err)
     ELSE Ok([nodes |-> nodes, edge_index |-> ea.val.edge_index,
              edge_attr |-> ea.val.edge_attr, charge |-> SumSeq(mol.atoms)])

\* PairData.__init__
PairData(edge_index_p, edge_attr_p, x_p, charge_p, edge_index_d, edge_attr_d, x_d, charge_d) ==
  [edge_index_p |-> edge_index_p, edge_index_d |-> edge_index_d,
   x_p |-> x_p, x_d |-> x_d,
   edge_attr_p |-> edge_attr_p, edge_attr_d |-> edge_attr_d,
   charge_prot |-> charge_p, charge_deprot |-> charge_d,
   num_nodes |-> Len(x_p.data)]

mol_to_paired_mol_data(prot, deprot, atom_idx, n_features, e_features) ==
  LET p == mol_to_features(prot, atom_idx, n_features, e_features)
  IN IF p.err # NoErr THEN Raise(p.err)
     ELSE LET d == mol_to_features(deprot, atom_idx, n_features, e_features)
          IN IF d.err # NoErr THEN Raise(d.err)
             ELSE Ok(PairData(p.val.edge_index, p.val.edge_attr, p.val.nodes,
                              p.val.charge,
                              d.val.edge_index, d.val.edge_attr, d.val.nodes,
                              d.val.charge))

\* mol_to_single_mol_data: (Data(x, edge_index, edge_attr), charge)
mol_to_single_mol_data(mol, atom_idx, n_features, e_features) ==
  LET p == mol_to_features(mol, atom_idx, n_features, e_features)
  IN IF p.err # NoErr THEN Raise(p.err)
     ELSE Ok([x |-> p.val.nodes, edge_index |-> p.val.edge_index,
              edge_attr |-> p.val.edge_attr])

(* ===================================================================== *)
(* Feature width: calculate_nr_of_features on every list of names         *)
(* ===================================================================== *)
InitFeatures ==
  /\ pc = "start"
  /\ args \in [feature_list : SeqsBetween(AllNames, 0, MaxList)]
  /\ df = <<>> /\ ret = None /\ err = NoErr /\ log = <<>> /\ calls = <<>>

CalculateNrOfFeatures ==
  /\ pc = "start"
  /\ LET r == calculate_nr_of_features(args.feature_list)
     IN /\ err' = r.err
        /\ ret' = r.val
  /\ pc' = "calculate_nr_of_features"
  /\ UNCHANGED <<args, df, log, calls>>

NextFeatures == CalculateNrOfFeatures

SpecFeatures == InitFeatures /\ [][NextFeatures]_vars

\* number of (feature, domain value) pairs of a selection over a vocabulary
DomainPairs(values, feature_list) ==
  Cardinality({<<k, j>> \in (1..Len(feature_list)) \X (1..3) :
                 j <= Len(values[feature_list[k]])})

\* C9: calculate_nr_of_features returns the sum of the domain sizes of an
\* all-node or an all-edge selection, and raises a configuration error
\* (RuntimeError) for a selection that mixes both vocabularies or holds a name
\* of neither.
C9_FeatureWidth ==
  pc = "calculate_nr_of_features" =>
    LET fl == args.feature_list
    IN /\ AllIn(fl, NodeNames) => err = NoErr /\ ret = DomainPairs(node_feat_values, fl)
       /\ AllIn(fl, EdgeNames) => err = NoErr /\ ret = DomainPairs(edge_feat_values, fl)
       /\ (~AllIn(fl, NodeNames) /\ ~AllIn(fl, EdgeNames)) => err.kind = "RuntimeError"

C9_Witness ==
  /\ pc = "calculate_nr_of_features"
  /\ args.feature_list = <<"bond_type", "formal_charge", "bogus">>
  /\ err.kind = "RuntimeError"

(* ===================================================================== *)
(* Graph builder: make_nodes, make_edges_and_attr, mol_to_paired_mol_data *)
(* ===================================================================== *)
GraphMols == MolsOver({0, 1}, MaxAtoms, MaxBonds)

NodeDicts == {make_features_dicts(NodeNames, l).val : l \in SeqsBetween(NodeNames, 0, MaxSel)}
EdgeDicts == {make_features_dicts(EdgeNames, l).val : l \in SeqsBetween(EdgeNames, 0, MaxSel)}

\* the same structure with the charge of atom idx changed by d
WithCharge(mol, idx, d) ==
  Mol([mol.atoms EXCEPT ![idx + 1] = @ + d], mol.bonds, "conj")

\* a structure with one more atom, bonded to atom 0 when there is one
WithExtraAtom(mol) ==
  Mol(Append(mol.atoms, 0),
      IF GetNumAtoms(mol) = 0 THEN mol.bonds
      ELSE Append(mol.bonds, [begin |-> 0, end |-> GetNumAtoms(mol), order |-> 1]),
      "conj")

OtherSides(mol, idx) ==
  {WithExtraAtom(mol), IF HasAtom(mol, idx) THEN WithCharge(mol, idx, -1) ELSE mol}

\* every node selection and every edge selection, paired by length
FeaturePairs == {f \in NodeDicts \X EdgeDicts : Len(f[1]) = Len(f[2])}

GraphArgs(mols) ==
  UNION {[mol : {mol}, atom_idx : {atom_idx}, deprot : OtherSides(mol, atom_idx),
          n_features : {f[1]}, e_features : {f[2]}]
           : mol \in mols, atom_idx \in 0..(MaxAtoms - 1), f \in FeaturePairs}

\* structures with atoms, and the empty structure Chem.Mol()
InitGraph ==
  /\ pc = "start"
  /\ \/ args \in GraphArgs({m \in GraphMols : GetNumAtoms(m) >= 1})
     \/ args \in GraphArgs({m \in GraphMols : GetNumAtoms(m) = 0})
  /\ df = <<>> /\ ret = None /\ err = NoErr /\ log = <<>> /\ calls = <<>>

MakeNodes ==
  /\ pc = "start"
  /\ ret' = make_nodes(args.mol, args.atom_idx, args.n_features)
  /\ pc' = "make_nodes"
  /\ UNCHANGED <<args, df, err, log, calls>>

MakeEdgesAndAttr ==
  /\ pc = "start"
  /\ LET r == make_edges_and_attr(args.mol, args.e_features)
     IN /\ err' = r.err
        /\ ret' = r.val
  /\ pc' = "make_edges_and_attr"
  /\ UNCHANGED <<args, df, log, calls>>

MolToPairedMolData ==
  /\ pc = "start"
  /\ LET r == mol_to_paired_mol_data(args.mol, args.deprot, args.atom_idx,
                                     args.n_features, args.e_features)
     IN /\ err' = r.err
        /\ ret' = r.val
  /\ pc' = "mol_to_paired_mol_data"
  /\ UNCHANGED <<args, df, log, calls>>

NextGraph == MakeNodes \/ MakeEdgesAndAttr \/ MolToPairedMolData

SpecGraph == InitGraph /\ [][NextGraph]_vars

\* column c (0-based) of a 2 x n index tensor
Column(t, c) == <<t.data[1][c + 1], t.data[2][c + 1]>>

\* the selected features of one bond, concatenated in selection order: the
\* values of feature k stand at the columns after those of features 1..k-1
IsBondFeatures(row, bond, e_features) ==
  /\ Len(row) = DomainPairs(edge_feat_values, e_features)
  /\ \A k \in 1..Len(e_features) :
       LET off == DomainPairs(edge_feat_values, SubSeq(e_features, 1, k - 1))
           f == EDGE_FEATURES(e_features[k], bond)
       IN SubSeq(row, off + 1, off + Len(f)) = f

IsAtomFeatures(row, mol, i, atom_idx, n_features) ==
  /\ Len(row) = DomainPairs(node_feat_values, n_features)
  /\ \A k \in 1..Len(n_features) :
       LET off == DomainPairs(node_feat_values, SubSeq(n_features, 1, k - 1))
           f == NODE_FEATURES(n_features[k], mol, i, atom_idx)
       IN SubSeq(row, off + 1, off + Len(f)) = f

\* C3: make_edges_and_attr returns, for every molecule including one without
\* bonds, a 2 x 2n edge index and 2n edge-attribute rows for n bonds; bond k
\* gives column 2k = (begin, end), column 2k+1 = (end, begin) and two equal
\* attribute rows holding the bond's selected features in selection order.
C3_EdgesOfEveryMolecule ==
  pc = "make_edges_and_attr" =>
    LET bonds == args.mol.bonds
        n == Len(bonds)
    IN /\ err = NoErr
       /\ ret.edge_index.shape = <<2, 2 * n>>
       /\ Len(ret.edge_attr.data) = 2 * n
       /\ \A k \in 0..(n - 1) :
            /\ Column(ret.edge_index, 2 * k) = <<bonds[k + 1].begin, bonds[k + 1].end>>
            /\ Column(ret.edge_index, 2 * k + 1) = <<bonds[k + 1].end, bonds[k + 1].begin>>
            /\ ret.edge_attr.data[2 * k + 1] = ret.edge_attr.data[2 * k + 2]
            /\ IsBondFeatures(ret.edge_attr.data[2 * k + 1], bonds[k + 1], args.e_features)

\* the part of C3 that the code fulfils: molecules with at least one bond
EdgesOfBondedMolecule ==
  (pc = "make_edges_and_attr" /\ args.mol.bonds # <<>>) => C3_EdgesOfEveryMolecule

NodesAre(x, mol, atom_idx, n_features) ==
  /\ x.shape = <<GetNumAtoms(mol), calculate_nr_of_features(n_features).val>>
  /\ Len(x.data) = GetNumAtoms(mol)
  /\ \A i \in 0..(GetNumAtoms(mol) - 1) :
       IsAtomFeatures(x.data[i + 1], mol, i, atom_idx, n_features)

Size0(t) == t.shape[1]

PairData_inc_shared(data, key) ==
  IF key = "edge_index_p" THEN Size0(data.x_p)
  ELSE IF key = "edge_index_d" THEN Size0(data.x_p)
  ELSE 0

\* PairData.__inc__(key, value); the keys that fall through to Data.__inc__
\* hold no index and are incremented by 0
PairData_inc(data, key) ==
  IF key = "edge_index_p" THEN Size0(data.x_p)
  ELSE IF key = "edge_index_d" THEN Size0(data.x_d)
  ELSE 0

\* value + increment on every entry of a 2 x n index tensor's data
Shift(rows, off) == [r \in 1..2 |-> [c \in 1..Len(rows[r]) |-> rows[r][c] + off]]

CatColumns(a, b) == [r \in 1..2 |-> a[r] \o b[r]]

EmptyBatch ==
  [edge_index_p |-> <<<<>>, <<>>>>, edge_index_d |-> <<<<>>, <<>>>>,
   x_p |-> <<>>, x_d |-> <<>>,
   slice_edge_p |-> <<0>>, slice_edge_d |-> <<0>>,
   slice_x_p |-> <<0>>, slice_x_d |-> <<0>>]

RECURSIVE CollateFrom(_, _, _, _)
\* the batch collation: sample n's value under each key is incremented by the
\* sum of __inc__(key) of the samples before it, then concatenated (index
\* tensors along the columns, node matrices along the rows); the slices
\* record where each sample's part ends
CollateFrom(data_list, n, inc, b) ==
  IF n > Len(data_list) THEN b
  ELSE LET d == data_list[n]
       IN CollateFrom(data_list, n + 1,
            [p |-> inc.p + PairData_inc(d, "edge_index_p"),
             d |-> inc.d + PairData_inc(d, "edge_index_d")],
            [edge_index_p |-> CatColumns(b.edge_index_p, Shift(d.edge_index_p.data, inc.p)),
             edge_index_d |-> CatColumns(b.edge_index_d, Shift(d.edge_index_d.data, inc.d)),
             x_p |-> b.x_p \o d.x_p.data,
             x_d |-> b.x_d \o d.x_d.data,
             slice_edge_p |-> Append(b.slice_edge_p, Len(b.edge_index_p[1]) + Len(d.edge_index_p.data[1])),
             slice_edge_d |-> Append(b.slice_edge_d, Len(b.edge_index_d[1]) + Len(d.edge_index_d.data[1])),
             slice_x_p |-> Append(b.slice_x_p, Len(b.x_p) + Len(d.x_p.data)),
             slice_x_d |-> Append(b.slice_x_d, Len(b.x_d) + Len(d.x_d.data))])

Collate(data_list) == CollateFrom(data_list, 1, [p |-> 0, d |-> 0], EmptyBatch)

\* structures of the batched samples: a chain of n atoms, atom 0 charged c
Chain(n, c) ==
  Mol([i \in 1..n |-> IF i = 1 THEN c ELSE 0],
      [k \in 1..(n - 1) |-> [begin |-> k - 1, end |-> k, order |-> 1]], "mol")

BatchMols == {Chain(n, 0) : n \in 2..(MaxAtoms + 1)}

BatchSamples ==
  {mol_to_paired_mol_data(p, d, 0, <<"formal_charge", "reaction_center">>,
                          <<"bond_type">>).val : p \in BatchMols, d \in BatchMols}

InitBatch ==
  /\ pc = "start"
  /\ args \in [data_list : SeqsBetween(BatchSamples, 0, MaxBatch)]
  /\ df = <<>> /\ ret = None /\ err = NoErr /\ log = <<>> /\ calls = <<>>

CollateBatch ==
  /\ pc = "start"
  /\ ret' = Collate(args.data_list)
  /\ pc' = "batched"
  /\ UNCHANGED <<args, df, err, log, calls>>

NextBatch == CollateBatch

SpecBatch == InitBatch /\ [][NextBatch]_vars

\* number of (sample, node) pairs of the samples before sample n on one side
NodesBefore(data_list, n, side) ==
  Cardinality({<<j, i>> \in (1..(n - 1)) \X (1..(MaxAtoms + 2)) :
                 i <= Len(IF side = "p" THEN data_list[j].x_p.data
                          ELSE data_list[j].x_d.data)})

SideOffsets(local, batched, slice_edge, slice_x, n, before) ==
  \A c \in 1..Len(local.data[1]) : \A r \in 1..2 :
    LET v == batched[r][slice_edge[n] + c]
    IN /\ v = local.data[r][c] + before
       /\ slice_x[n] <= v /\ v < slice_x[n + 1]

\* C4: in a batch of paired samples the protonated edge indices of sample n
\* are offset by the protonated node counts of the samples before it and the
\* deprotonated ones by the deprotonated node counts, independently, so each
\* side's edge indices point at node rows of the same sample and side.
C4_BatchOffsets ==
  pc = "batched" =>
    \A n \in 1..Len(args.data_list) :
      LET d == args.data_list[n]
      IN /\ SideOffsets(d.edge_index_p, ret.edge_index_p, ret.slice_edge_p,
                        ret.slice_x_p, n, NodesBefore(args.data_list, n, "p"))
         /\ SideOffsets(d.edge_index_d, ret.edge_index_d, ret.slice_edge_d,
                        ret.slice_x_d, n, NodesBefore(args.data_list, n, "d"))

C4_Witness ==
  /\ pc = "batched"
  /\ Len(args.data_list) >= 2
  /\ Len(args.data_list[1].x_p.data) # Len(args.data_list[1].x_d.data)
  /\ Len(ret.edge_index_d[1]) > Len(args.data_list[1].edge_index_d.data[1])

(* ===================================================================== *)
(* Dataset-wide pass: conjugates_to_dataframe, sort_conjugates, preprocess *)
(* ===================================================================== *)
\* a property read from the structure file is text; int(...) and float(...)
\* parse it
Text(v) == [text |-> v]
ParseNumber(t) == t.text

\* data frame helpers: a frame is the sequence of its rows (default
\* RangeIndex 0..n-1), a row a record of its columns
SetColumn(frame, name, values) ==
  [i \in 1..Len(frame) |-> [c \in DOMAIN frame[i] \cup {name} |->
                               IF c = name THEN values[i] ELSE frame[i][c]]]

DropColumns(frame, names) ==
  [i \in 1..Len(frame) |-> [c \in DOMAIN frame[i] \ names |-> frame[i][c]]]

\* pkasolver.chem.create_conjugate(mol, index, pka, ignore_danger): the
\* outcomes of the external generator: a failure, or a new structure with the
\* same atoms whose charge at the reaction center is changed
create_conjugate(mol, index, pka, ignore_danger) ==
  {Raise(AssertionErr({Part("no conjugate")}))}
    \cup {Ok(WithCharge(mol, index, d)) : d \in {-1, 0, 1}}

RECURSIVE ConjugatesLoopNoAppend(_, _, _, _, _)
ConjugatesLoopNoAppend(frame, mol_col, outcomes, i, acc) ==
  IF i >= Len(frame) THEN acc
  ELSE LET mol == frame[i + 1][mol_col]
           o == outcomes[i + 1]
       IN IF o.err = NoErr
          THEN ConjugatesLoopNoAppend(frame, mol_col, outcomes, i + 1,
                 [acc EXCEPT !.conjugates = Append(@, o.val)])
          ELSE ConjugatesLoopNoAppend(frame, mol_col, outcomes, i + 1,
                 [acc EXCEPT !.log = @ \o <<[text |-> "Could not create conjugate of mol number", i |-> i],
                                            [text |-> "exception", e |-> o.err]>>])

RECURSIVE ConjugatesLoop(_, _, _, _, _)
\* the loop of conjugates_to_dataframe over range(len(df.index)); outcomes[i+1]
\* is what create_conjugate does on row i
ConjugatesLoop(frame, mol_col, outcomes, i, acc) ==
  IF i >= Len(frame) THEN acc
  ELSE LET mol == frame[i + 1][mol_col]
           o == outcomes[i + 1]
       IN IF o.err = NoErr
          THEN ConjugatesLoop(frame, mol_col, outcomes, i + 1,
                 [acc EXCEPT !.conjugates = Append(@, o.val)])
          ELSE ConjugatesLoop(frame, mol_col, outcomes, i + 1,
                 [acc EXCEPT !.log = @ \o <<[text |-> "Could not create conjugate of mol number", i |-> i],
                                            [text |-> "exception", e |-> o.err]>>,
                             !.conjugates = Append(@, mol)])

\* df["Conjugates"] = conjugates: pandas refuses a column of another length
AssignConjugates(frame, acc) ==
  IF Len(acc.conjugates) # Len(frame)
  THEN [err |-> ValueErr({Part("Length of values does not match length of index")}),
        df |-> frame, log |-> acc.log]
  ELSE [err |-> NoErr, df |-> SetColumn(frame, "Conjugates", acc.conjugates),
        log |-> acc.log]

conjugates_to_dataframe_skip(frame, mol_col, outcomes) ==
  AssignConjugates(frame,
    ConjugatesLoopNoAppend(frame, mol_col, outcomes, 0, [conjugates |-> <<>>, log |-> <<>>]))

conjugates_to_dataframe(frame, mol_col, outcomes) ==
  AssignConjugates(frame,
    ConjugatesLoop(frame, mol_col, outcomes, 0, [conjugates |-> <<>>, log |-> <<>>]))

RECURSIVE SortLoopFlipped(_, _, _, _, _)
SortLoopFlipped(frame, mol_col_1, mol_col_2, i, acc) ==
  IF i >= Len(frame) THEN acc
  ELSE LET indx == ParseNumber(frame[i + 1].marvin_atom)
           mol == frame[i + 1][mol_col_1]
           conj == frame[i + 1][mol_col_2]
           charge_mol == GetFormalCharge(mol, indx)
           charge_conj == GetFormalCharge(conj, indx)
       IN SortLoopFlipped(frame, mol_col_1, mol_col_2, i + 1,
            IF charge_mol < charge_conj
            THEN [acc EXCEPT !.prot = Append(@, mol), !.deprot = Append(@, conj)]
            ELSE IF charge_mol > charge_conj
            THEN [acc EXCEPT !.prot = Append(@, mol), !.deprot = Append(@, conj)]
            ELSE [acc EXCEPT !.log = Append(@, [text |-> "prot = deprot"]),
                             !.prot = Append(@, mol), !.deprot = Append(@, conj)])

RECURSIVE SortLoop(_, _, _, _, _)
\* the loop of sort_conjugates over range(len(df.index))
SortLoop(frame, mol_col_1, mol_col_2, i, acc) ==
  IF i >= Len(frame) THEN acc
  ELSE LET indx == ParseNumber(frame[i + 1].marvin_atom)
           mol == frame[i + 1][mol_col_1]
           conj == frame[i + 1][mol_col_2]
           charge_mol == GetFormalCharge(mol, indx)
           charge_conj == GetFormalCharge(conj, indx)
       IN SortLoop(frame, mol_col_1, mol_col_2, i + 1,
            IF charge_mol < charge_conj
            THEN [acc EXCEPT !.prot = Append(@, conj), !.deprot = Append(@, mol)]
            ELSE IF charge_mol > charge_conj
            THEN [acc EXCEPT !.prot = Append(@, mol), !.deprot = Append(@, conj)]
            ELSE [acc EXCEPT !.log = Append(@, [text |-> "prot = deprot"]),
                             !.prot = Append(@, mol), !.deprot = Append(@, conj)])

\* the columns sort_conjugates adds, and the frame it returns
SortedFrame(frame, acc) ==
  [df |-> DropColumns(SetColumn(SetColumn(frame, "protonated", acc.prot),
                                "deprotonated", acc.deprot),
                      {"ROMol", "Conjugates"}),
   log |-> acc.log]

sort_conjugates_flipped(frame, mol_col_1, mol_col_2) ==
  SortedFrame(frame, SortLoopFlipped(frame, mol_col_1, mol_col_2, 0,
                                     [prot |-> <<>>, deprot |-> <<>>, log |-> <<>>]))

sort_conjugates(frame, mol_col_1, mol_col_2) ==
  SortedFrame(frame, SortLoop(frame, mol_col_1, mol_col_2, 0,
                              [prot |-> <<>>, deprot |-> <<>>, log |-> <<>>]))

\* df["pKa"] = df["pKa"].astype(float)
AstypeFloat(frame, name) ==
  SetColumn(frame, name, [i \in 1..Len(frame) |-> ParseNumber(frame[i][name])])

\* the rows import_sdf loads: a structure of n unbonded atoms with its
\* reaction center a, which alone may carry a charge
SdfMol(n, a, c) == Mol([i \in 1..n |-> IF i = a + 1 THEN c ELSE 0], <<>>, "mol")

SdfRows ==
  UNION {{[ROMol |-> SdfMol(n, a, c), marvin_atom |-> Text(a),
           marvin_pKa |-> Text(70), pKa |-> Text(70)] :
             a \in 0..(n - 1), c \in {0, 1}} : n \in 1..MaxAtoms}

WithIDs(rows) == SetColumn(rows, "ID", [i \in 1..Len(rows) |-> i - 1])

InitPreprocess ==
  /\ pc = "import_sdf"
  /\ \E rows \in SeqsBetween(SdfRows, 0, MaxRows) : df = WithIDs(rows)
  /\ args = None /\ ret = None /\ err = NoErr /\ log = <<>> /\ calls = <<>>

\* what create_conjugate can do on each row of the frame
Outcomes(frame) ==
  {o \in [1..Len(frame) -> UNION {create_conjugate(frame[i].ROMol,
                                     ParseNumber(frame[i].marvin_atom),
                                     ParseNumber(frame[i].marvin_pKa), TRUE)
                                    : i \in 1..Len(frame)}] :
     \A i \in 1..Len(frame) :
       o[i] \in create_conjugate(frame[i].ROMol, ParseNumber(frame[i].marvin_atom),
                                 ParseNumber(frame[i].marvin_pKa), TRUE)}

ConjugatesToDataframe ==
  /\ pc = "import_sdf"
  /\ \E outcomes \in Outcomes(df) :
       LET r == conjugates_to_dataframe(df, "ROMol", outcomes)
       IN /\ err' = r.err
          /\ df' = r.df
          /\ log' = log \o r.log
          /\ calls' = outcomes
          /\ pc' = IF r.err = NoErr THEN "conjugates_to_dataframe" ELSE "raised"
  /\ UNCHANGED <<args, ret>>

\* sort_conjugates(df) as preprocess calls it, or with the two columns passed
\* the other way round
SortConjugates ==
  /\ pc = "conjugates_to_dataframe"
  /\ \E cols \in {<<"ROMol", "Conjugates">>, <<"Conjugates", "ROMol">>} :
       LET r == sort_conjugates(df, cols[1], cols[2])
       IN /\ args' = [df |-> df, mol_col_1 |-> cols[1], mol_col_2 |-> cols[2]]
          /\ df' = r.df
          /\ ret' = r.log
          /\ log' = log \o r.log
  /\ pc' = "sort_conjugates"
  /\ UNCHANGED <<err, calls>>

PreprocessAstype ==
  /\ pc = "sort_conjugates"
  /\ df' = AstypeFloat(df, "pKa")
  /\ pc' = "preprocess"
  /\ UNCHANGED <<args, ret, err, log, calls>>

NextPreprocess == ConjugatesToDataframe \/ SortConjugates \/ PreprocessAstype

SpecPreprocess == InitPreprocess /\ [][NextPreprocess]_vars

Sorted == pc \in {"sort_conjugates", "preprocess"}

\* C1: sort_conjugates assigns the roles of every row by the formal charge at
\* the reaction center: the conjugate is the protonated form when the
\* original's charge is lower, the original when it is higher or equal; equal
\* charges print a warning; with different charges the assignment is the same
\* when the two columns are passed the other way round.
C1_SortByCharge ==
  Sorted =>
    /\ Len(df) = Len(args.df)
    /\ \A i \in 1..Len(df) :
         LET original == args.df[i][args.mol_col_1]
             conjugate == args.df[i][args.mol_col_2]
             indx == ParseNumber(args.df[i].marvin_atom)
             c_orig == GetFormalCharge(original, indx)
             c_conj == GetFormalCharge(conjugate, indx)
             swapped == sort_conjugates(args.df, args.mol_col_2, args.mol_col_1).df
         IN /\ c_orig < c_conj =>
                 df[i].protonated = conjugate /\ df[i].deprotonated = original
            /\ c_orig >= c_conj =>
                 df[i].protonated = original /\ df[i].deprotonated = conjugate
            /\ c_orig # c_conj =>
                 /\ swapped[i].protonated = df[i].protonated
                 /\ swapped[i].deprotonated = df[i].deprotonated
    /\ Cardinality({k \in 1..Len(ret) : ret[k].text = "prot = deprot"})
         = Cardinality({i \in 1..Len(df) :
              GetFormalCharge(args.df[i].ROMol, ParseNumber(args.df[i].marvin_atom))
                = GetFormalCharge(args.df[i].Conjugates, ParseNumber(args.df[i].marvin_atom))})

C1_Witness ==
  /\ pc = "sort_conjugates"
  /\ Len(df) = 2
  /\ args.mol_col_1 = "Conjugates"
  /\ df[1].protonated = args.df[1].ROMol /\ df[1].protonated # args.df[1].Conjugates
  /\ GetFormalCharge(args.df[2].ROMol, ParseNumber(args.df[2].marvin_atom))
       = GetFormalCharge(args.df[2].Conjugates, ParseNumber(args.df[2].marvin_atom))
  /\ Len(ret) = 1

\* C7: a failure of create_conjugate on row i does not abort the dataset-wide
\* pass: it is printed with the row index, every other row gets the conjugate
\* the generator returned, the result has one entry per input row in the same
\* order, and the failing row's protonated and deprotonated structures are
\* both the original structure.
C7_FailureKeepsRow ==
  /\ pc # "raised" /\ err = NoErr
  /\ pc \in {"conjugates_to_dataframe", "sort_conjugates", "preprocess"} =>
       /\ Len(df) = Len(calls)
       /\ \A i \in 1..Len(df) : df[i].ID = i - 1
       /\ \A i \in 1..Len(calls) :
            calls[i].err # NoErr =>
              \E k \in 1..Len(log) :
                log[k] = [text |-> "Could not create conjugate of mol number", i |-> i - 1]
  /\ pc = "conjugates_to_dataframe" =>
       \A i \in 1..Len(df) :
         df[i].Conjugates = IF calls[i].err = NoErr THEN calls[i].val ELSE df[i].ROMol
  /\ (Sorted /\ args.mol_col_1 = "ROMol") =>
       \A i \in 1..Len(df) :
         /\ calls[i].err # NoErr =>
              /\ df[i].protonated = args.df[i].ROMol
              /\ df[i].deprotonated = args.df[i].ROMol
         /\ calls[i].err = NoErr =>
              {df[i].protonated, df[i].deprotonated} = {args.df[i].ROMol, calls[i].val}

C7_Witness ==
  /\ pc = "preprocess"
  /\ args.mol_col_1 = "ROMol"
  /\ Len(df) = 2
  /\ calls[1].err # NoErr /\ calls[2].err = NoErr
  /\ df[1].protonated = df[1].deprotonated
  /\ df[2].protonated # df[2].deprotonated

(* ===================================================================== *)
(* Single-molecule ingestion: make_paired_pyg_data_from_mol               *)
(* ===================================================================== *)
\* torch.tensor(v, dtype=torch.float32) of a whole number below 2^25: 24
\* significant bits, ties to even
Float32(v) ==
  IF v < 2^24 THEN v
  ELSE IF v % 2 = 0 THEN v
  ELSE IF (v \div 2) % 2 = 0 THEN v - 1 ELSE v + 1

\* Chem.MolToSmiles(mol): the canonical string of the structure, whichever
\* object holds it
MolToSmiles(mol) == [smiles |-> <<mol.atoms, mol.bonds>>]

ReadPka_quiet(mol, props) ==
  IF "pKa" \in DOMAIN props
  THEN [err |-> NoErr, val |-> props["pKa"], log |-> <<>>]
  ELSE [err |-> KeyErr("pKa"), val |-> None, log |-> <<>>]

\* props["pKa"], or the three prints and the re-raised KeyError
ReadPka(mol, props) ==
  IF "pKa" \in DOMAIN props
  THEN [err |-> NoErr, val |-> props["pKa"], log |-> <<>>]
  ELSE [err |-> KeyErr("pKa"), val |-> None,
        log |-> <<[text |-> "No pKa found for molecule", props |-> props],
                  [props |-> props], MolToSmiles(mol)>>]

\* props["epik_atom"], else props["marvin_atom"], else RuntimeError()
ReadReactionCenter(mol, props) ==
  IF "epik_atom" \in DOMAIN props
  THEN [err |-> NoErr, val |-> props["epik_atom"], log |-> <<>>]
  ELSE IF "marvin_atom" \in DOMAIN props
  THEN [err |-> NoErr, val |-> props["marvin_atom"], log |-> <<>>]
  ELSE [err |-> RuntimeErr({}), val |-> None,
        log |-> <<[text |-> "No reaction center foundfor molecule", props |-> props],
                  [props |-> props], MolToSmiles(mol)>>]

\* sort mol and conj into protonated and deprotonated molecule
SortMolAndConj(mol, conj, atom_idx) ==
  IF GetFormalCharge(mol, atom_idx) > GetFormalCharge(conj, atom_idx)
  THEN [prot |-> mol, deprot |-> conj]
  ELSE [prot |-> conj, deprot |-> mol]

ReadPkaType(props) ==
  IF "pka_number" \in DOMAIN props THEN props["pka_number"]
  ELSE IF "marvin_pKa_type" \in DOMAIN props THEN props["marvin_pKa_type"]
  ELSE ""

ReadID(props) == IF "ID" \in DOMAIN props THEN props["ID"] ELSE ""

NoLocals == [atom_idx |-> None, conj |-> None, prot |-> None, deprot |-> None]

\* make_paired_pyg_data_from_mol; create is what create_conjugate does if it
\* is called. The result holds the exception or the sample m, what was
\* printed, the calls made to create_conjugate and the locals of the run.
make_paired_pyg_data_from_mol(mol, props, selected_node_features, selected_edge_features, create) ==
  LET pka == ReadPka(mol, props)
      center == ReadReactionCenter(mol, props)
      atom_idx == center.val
      conj == create
      call == <<[mol |-> mol, atom_idx |-> atom_idx, pka |-> pka.val]>>
      roles == SortMolAndConj(mol, conj.val, atom_idx)
      m == mol_to_paired_mol_data(roles.prot, roles.deprot, atom_idx,
                                  selected_node_features, selected_edge_features)
  IN IF pka.err # NoErr
     THEN [err |-> pka.err, m |-> None, log |-> pka.log, calls |-> <<>>,
           locals |-> NoLocals]
     ELSE IF center.err # NoErr
     THEN [err |-> center.err, m |-> None, log |-> center.log, calls |-> <<>>,
           locals |-> NoLocals]
     ELSE IF conj.err # NoErr
     THEN [err |-> conj.err, m |-> None,
           log |-> <<[text |-> "mol is failing because", e |-> conj.err]>>,
           calls |-> call, locals |-> [NoLocals EXCEPT !.atom_idx = atom_idx]]
     ELSE IF m.err # NoErr
     THEN [err |-> m.err, m |-> None, log |-> <<>>, calls |-> call,
           locals |-> [atom_idx |-> atom_idx, conj |-> conj.val,
                       prot |-> roles.prot, deprot |-> roles.deprot]]
     ELSE [err |-> NoErr,
           m |-> [data |-> m.val, x |-> Float32(pka.val),
                  pka_type |-> ReadPkaType(props), ID |-> ReadID(props)],
           log |-> <<>>, calls |-> call,
           locals |-> [atom_idx |-> atom_idx, conj |-> conj.val,
                       prot |-> roles.prot, deprot |-> roles.deprot]]

\* annotated molecules: a chain of n atoms, atom a charged c
AnnotatedMol(n, a, c) ==
  Mol([i \in 1..n |-> IF i = a + 1 THEN c ELSE 0],
      [k \in 1..(n - 1) |-> [begin |-> k - 1, end |-> k, order |-> 1]], "mol")

AnnotatedMols ==
  UNION {{AnnotatedMol(n, a, c) : a \in 0..(n - 1), c \in {0, 1}} : n \in 1..MaxAtoms}

\* a property bag: each key of keys with one of its values
Bags(keys, values) == UNION {[K -> values] : K \in SUBSET keys}

\* the property bags of a molecule of n atoms
PropertyBags(n) ==
  {p1 @@ p2 @@ p3 :
     p1 \in Bags({"pKa"}, {7, 2^24 + 1}),
     p2 \in Bags({"epik_atom", "marvin_atom"}, 0..(n - 1)),
     p3 \in Bags({"pka_number", "marvin_pKa_type", "ID"}, {"acidic"})}

InitMol ==
  /\ pc = "start"
  /\ \E mol \in AnnotatedMols, f \in FeaturePairs :
       args \in [mol : {mol}, props : PropertyBags(GetNumAtoms(mol)),
                 selected_node_features : {f[1]}, selected_edge_features : {f[2]}]
  /\ df = <<>> /\ ret = None /\ err = NoErr /\ log = <<>> /\ calls = <<>>

\* what the call create_conjugate(mol, atom_idx, pka) can do; without a pKa
\* or a reaction center the call is not reached
Creates(mol, props) ==
  IF ReadPka(mol, props).err = NoErr /\ ReadReactionCenter(mol, props).err = NoErr
  THEN create_conjugate(mol, ReadReactionCenter(mol, props).val,
                        ReadPka(mol, props).val, FALSE)
  ELSE {Raise(NoErr)}

MakePairedPygDataFromMol ==
  /\ pc = "start"
  /\ \E create \in Creates(args.mol, args.props) :
       LET r == make_paired_pyg_data_from_mol(args.mol, args.props,
                  args.selected_node_features, args.selected_edge_features, create)
       IN /\ err' = r.err
          /\ ret' = [m |-> r.m, locals |-> r.locals]
          /\ log' = r.log
          /\ calls' = r.calls
  /\ pc' = "make_paired_pyg_data_from_mol"
  /\ UNCHANGED <<args, df>>

NextMol == MakePairedPygDataFromMol

SpecMol == InitMol /\ [][NextMol]_vars

\* the roles the conjugate pair resolver gives a one-row frame
Resolved(mol, conj, atom_idx) ==
  sort_conjugates(<<[ROMol |-> mol, Conjugates |-> conj, marvin_atom |-> Text(atom_idx)]>>,
                  "ROMol", "Conjugates").df[1]

\* C2: make_paired_pyg_data_from_mol gives the original and the conjugate the
\* roles the conjugate pair resolver gives them, for all charges at the
\* reaction center: the higher charge is the protonated side, and with equal
\* charges the original is protonated and the conjugate deprotonated.
C2_SameRolesAsResolver ==
  (pc = "make_paired_pyg_data_from_mol" /\ err = NoErr) =>
    LET mol == args.mol
        conj == ret.locals.conj
        atom_idx == ret.locals.atom_idx
    IN /\ ret.locals.prot = Resolved(mol, conj, atom_idx).protonated
       /\ ret.locals.deprot = Resolved(mol, conj, atom_idx).deprotonated
       /\ GetFormalCharge(ret.locals.prot, atom_idx) >= GetFormalCharge(ret.locals.deprot, atom_idx)
       /\ GetFormalCharge(mol, atom_idx) = GetFormalCharge(conj, atom_idx) =>
            ret.locals.prot = mol /\ ret.locals.deprot = conj

\* the part of C2 that the code fulfils: the roles agree when the charges differ
SameRolesWhenChargesDiffer ==
  (/\ pc = "make_paired_pyg_data_from_mol" /\ err = NoErr
   /\ GetFormalCharge(args.mol, ret.locals.atom_idx)
        # GetFormalCharge(ret.locals.conj, ret.locals.atom_idx))
    => C2_SameRolesAsResolver

MissingPka == pc = "make_paired_pyg_data_from_mol" /\ "pKa" \notin DOMAIN args.props

\* C8 as stated: without a pKa property the call fails with a missing-data
\* error whose message includes the molecule's canonical string, returns no
\* sample and does not call the conjugate generator.
C8_MessageNamesMolecule ==
  MissingPka =>
    /\ err.kind = "KeyError"
    /\ MolToSmiles(args.mol) \in err.msg
    /\ ret.m = None
    /\ calls = <<>>

\* C8 (amended): without a pKa property the call fails with the KeyError of
\* the missing key, whose message names the key only; the molecule's canonical
\* string is printed before the error is raised; no sample is returned and the
\* conjugate generator is not called, with or without a reaction center.
C8_MissingPkaRaises ==
  MissingPka =>
    /\ err = KeyErr("pKa")
    /\ \E k \in 1..Len(log) : log[k] = MolToSmiles(args.mol)
    /\ ret.m = None
    /\ calls = <<>>

C8_Witness ==
  /\ MissingPka
  /\ "marvin_atom" \in DOMAIN args.props
  /\ err.kind = "KeyError"
  /\ Len(log) = 3

(* ===================================================================== *)
(* Dataset materializer: make_pyg_dataset_from_dataframe                  *)
(* ===================================================================== *)
\* df.<column>[i]: the value of the row labelled i (labels are unique)
Lookup(frame, column, i) ==
  (CHOOSE r \in {frame[k] : k \in 1..Len(frame)} : r.index = i)[column]

\* attach reference_value and ID to a built sample; m.to(DEVICE) moves the
\* tensors and changes none
Labelled(m, frame, i) ==
  [data |-> m, reference_value |-> <<Float32(Lookup(frame, "pKa", i))>>,
   ID |-> Lookup(frame, "ID", i)]

RECURSIVE PairedLoop(_, _, _, _, _)
\* for i in df.index, paired: position k of the index is label i
PairedLoop(frame, k, n_features, e_features, acc) ==
  IF k > Len(frame) THEN acc
  ELSE LET i == frame[k].index
           m == mol_to_paired_mol_data(Lookup(frame, "protonated", i),
                  Lookup(frame, "deprotonated", i), Lookup(frame, "marvin_atom", i),
                  n_features, e_features)
       IN IF m.err # NoErr
          THEN [acc EXCEPT !.err = m.err, !.dataset = None, !.processed = @ + 1]
          ELSE PairedLoop(frame, k + 1, n_features, e_features,
                 [acc EXCEPT !.dataset = Append(@, Labelled(m.val, frame, i)),
                             !.processed = @ + 1])

RECURSIVE SingleLoop(_, _, _, _, _, _)
\* for i in df.index, not paired
SingleLoop(frame, k, n_features, e_features, mode, acc) ==
  IF k > Len(frame) THEN acc
  ELSE LET i == frame[k].index
           m == IF mode = "protonated"
                THEN mol_to_single_mol_data(Lookup(frame, "protonated", i),
                       Lookup(frame, "marvin_atom", i), n_features, e_features)
                ELSE IF mode = "deprotonated"
                THEN mol_to_single_mol_data(Lookup(frame, "deprotonated", i),
                       Lookup(frame, "marvin_atom", i), n_features, e_features)
                ELSE Raise(RuntimeErr({}))
       IN IF m.err # NoErr
          THEN [acc EXCEPT !.err = m.err, !.dataset = None, !.processed = @ + 1]
          ELSE SingleLoop(frame, k + 1, n_features, e_features, mode,
                 [acc EXCEPT !.dataset = Append(@, Labelled(m.val, frame, i)),
                             !.processed = @ + 1])

\* the result of a run: the exception or the dataset, the number of
\* make_features_dicts calls made and of rows taken up
Run(e, dataset, resolved, processed) ==
  [err |-> e, dataset |-> dataset, resolved |-> resolved, processed |-> processed]

WrongCombination(mode, paired) ==
  RuntimeErr({Part("Wrong combination of"), [mode |-> mode], [paired |-> paired]})

\* the part of make_pyg_dataset_from_dataframe after the mode check
Materialize(frame, list_n, list_e, paired, mode) ==
  LET selected_node_features == make_features_dicts(NodeNames, list_n)
      selected_edge_features == make_features_dicts(EdgeNames, list_e)
  IN IF selected_node_features.err # NoErr
     THEN Run(selected_node_features.err, None, 1, 0)
     ELSE IF selected_edge_features.err # NoErr
     THEN Run(selected_edge_features.err, None, 2, 0)
     ELSE IF paired
     THEN PairedLoop(frame, 1, selected_node_features.val,
                     selected_edge_features.val, Run(NoErr, <<>>, 2, 0))
     ELSE SingleLoop(frame, 1, selected_node_features.val,
                     selected_edge_features.val, mode, Run(NoErr, <<>>, 2, 0))

make_pyg_dataset_from_dataframe_latecheck(frame, list_n, list_e, paired, mode) ==
  LET r == Materialize(frame, list_n, list_e, paired, mode)
  IN IF r.err.kind = "KeyError" THEN r
     ELSE IF paired = FALSE /\ mode \notin {"protonated", "deprotonated"}
     THEN Run(WrongCombination(mode, paired), None, 2, 0)
     ELSE r

make_pyg_dataset_from_dataframe(frame, list_n, list_e, paired, mode) ==
  IF paired = FALSE /\ mode \notin {"protonated", "deprotonated"}
  THEN Run(WrongCombination(mode, paired), None, 0, 0)
  ELSE Materialize(frame, list_n, list_e, paired, mode)

\* the rows of a preprocessed table: the two forms of a chain of n atoms
\* whose reaction center a is charged in the protonated form
TableRows ==
  UNION {{[protonated |-> AnnotatedMol(n, a, 1), deprotonated |-> AnnotatedMol(n, a, 0),
           marvin_atom |-> a, pKa |-> v] : a \in 0..(n - 1), v \in {7, 2^24 + 1}}
           : n \in 1..MaxAtoms}

\* index labels 0..n-1 in order, or in reverse order (a reordered table)
WithIndex(rows, reversed) ==
  [k \in 1..Len(rows) |->
     [c \in DOMAIN rows[k] \cup {"index", "ID"} |->
        IF c = "index" THEN (IF reversed THEN Len(rows) - k ELSE k - 1)
        ELSE IF c = "ID" THEN k - 1
        ELSE rows[k][c]]]

Modes == {"all", "protonated", "deprotonated", "neutral"}

InitDataset ==
  /\ pc = "start"
  /\ \E rows \in SeqsBetween(TableRows, 0, MaxRows), reversed \in BOOLEAN :
       df = WithIndex(rows, reversed)
  /\ args \in [list_n : {<<"formal_charge", "reaction_center">>, <<"reaction_center", "bogus">>},
               list_e : {<<"bond_type">>},
               paired : BOOLEAN, mode : Modes]
  /\ ret = None /\ err = NoErr /\ log = <<>> /\ calls = <<>>

MakePygDatasetFromDataframe ==
  /\ pc = "start"
  /\ LET r == make_pyg_dataset_from_dataframe(df, args.list_n, args.list_e,
                                              args.paired, args.mode)
     IN /\ err' = r.err
        /\ ret' = [dataset |-> r.dataset, resolved |-> r.resolved,
                   processed |-> r.processed]
  /\ log' = <<[text |-> "Generating data with paired boolean set to",
               paired |-> args.paired]>>
            \o (IF args.paired \/ err' = WrongCombination(args.mode, args.paired)
                THEN <<>>
                ELSE <<[text |-> "Generating data with form", mode |-> args.mode]>>)
  /\ pc' = "make_pyg_dataset_from_dataframe"
  /\ UNCHANGED <<args, df, calls>>

NextDataset == MakePygDatasetFromDataframe

SpecDataset == InitDataset /\ [][NextDataset]_vars

ValidMode == args.paired \/ args.mode \in {"protonated", "deprotonated"}

ValidFeatures == AllIn(args.list_n, NodeNames) /\ AllIn(args.list_e, EdgeNames)

\* sample k is built from the structures of row k only
BuiltFromRow(sample, row) ==
  LET n == make_features_dicts(NodeNames, args.list_n).val
      e == make_features_dicts(EdgeNames, args.list_e).val
  IN sample.data =
       IF args.paired
       THEN mol_to_paired_mol_data(row.protonated, row.deprotonated,
                                   row.marvin_atom, n, e).val
       ELSE IF args.mode = "protonated"
       THEN mol_to_single_mol_data(row.protonated, row.marvin_atom, n, e).val
       ELSE mol_to_single_mol_data(row.deprotonated, row.marvin_atom, n, e).val

OneSamplePerRow ==
  /\ err = NoErr
  /\ Len(ret.dataset) = Len(df)
  /\ \A k \in 1..Len(df) :
       /\ ret.dataset[k].reference_value = <<Float32(df[k].pKa)>>
       /\ ret.dataset[k].ID = df[k].ID
       /\ BuiltFromRow(ret.dataset[k], df[k])

\* C6: for every table and every valid configuration
\* make_pyg_dataset_from_dataframe returns one sample per row, in row order,
\* sample k carrying the reference value (as float32) and the identifier of
\* row k and built from that row's structures only.
C6_OneSamplePerRow ==
  (pc = "make_pyg_dataset_from_dataframe" /\ ValidMode /\ ValidFeatures) =>
    OneSamplePerRow

\* the part of C6 that the code fulfils: tables whose structures all have a bond
SamplePerBondedRow ==
  (/\ pc = "make_pyg_dataset_from_dataframe" /\ ValidMode /\ ValidFeatures
   /\ \A k \in 1..Len(df) : df[k].protonated.bonds # <<>>)
    => OneSamplePerRow

\* C10: with paired=False and a mode other than 'protonated' and
\* 'deprotonated' the call raises the configuration error before a feature
\* selection is resolved and before a row is taken up, and returns no
\* samples; with paired=True the mode changes nothing and is never the error.
C10_ModeCheckedFirst ==
  pc = "make_pyg_dataset_from_dataframe" =>
    /\ (~args.paired /\ args.mode \notin {"protonated", "deprotonated"}) =>
         /\ err = WrongCombination(args.mode, args.paired)
         /\ ret.dataset = None
         /\ ret.resolved = 0
         /\ ret.processed = 0
    /\ args.paired =>
         /\ err # WrongCombination(args.mode, args.paired)
         /\ \A mode \in Modes :
              LET r == make_pyg_dataset_from_dataframe(df, args.list_n, args.list_e, TRUE, mode)
              IN r.err = err /\ r.dataset = ret.dataset

C10_Witness ==
  /\ pc = "make_pyg_dataset_from_dataframe"
  /\ ~args.paired /\ args.mode = "all"
  /\ args.list_n = <<"reaction_center", "bogus">>
  /\ Len(df) = 2
  /\ err.kind = "RuntimeError"

====
